---- MODULE Spec2Model ----
(***************************************************************************)
(* Room / session coordination and move validation of the multiplayer      *)
(* chess server (registerRoutes and DatabaseStorage in                     *)
(* src/shared/schema.ts).                                                  *)
(*                                                                         *)
(* Every `await storage.X(...)` of a handler is one suspension point: the  *)
(* storage operation takes effect and the handler runs on to its next      *)
(* await in one step.  Handlers of different messages (of one connection   *)
(* or of several) interleave at these points, as they do on the Node.js    *)
(* event loop.  A message is received when its handler's first storage     *)
(* operation takes effect: the code before it reads the session of the     *)
(* connection only.                                                        *)
(*                                                                         *)
(* chess.js is an external library.  It is modelled by a small game with   *)
(* the same interface (load a position, get, move, turn, isCheckmate, fen, *)
(* SAN): two files, three ranks, one pawn each side, a step forward, a     *)
(* diagonal capture, promotion on the last rank.                           *)
(***************************************************************************)
EXTENDS Integers, Sequences, FiniteSets, Bags, TLC

\* ------------------------------------------------------------------ bounds
NumConns    == 2   \* WebSocket connections that may ever be opened
MaxRooms    == 1   \* create_room messages accepted
MaxInFlight == 2   \* message handlers suspended at an await at the same time
MaxCloses   == 1   \* connections that close
MaxChats    == 1   \* chat messages stored

Conns == 1..NumConns

\* ------------------------------------------------------- the rules engine
Files   == <<"a", "b">>
Ranks   == 1..3
Squares == {"a1", "a2", "a3", "b1", "b2", "b3"}

FileOf(sq) == IF sq \in {"a1", "a2", "a3"} THEN 1 ELSE 2
RankOf(sq) == CASE sq \in {"a1", "b1"} -> 1
                [] sq \in {"a2", "b2"} -> 2
                [] OTHER -> 3
SquareAt(f, r) == CHOOSE sq \in Squares : FileOf(sq) = f /\ RankOf(sq) = r

NoPiece == [type |-> "-", color |-> "-"]
Pawn(c) == [type |-> "p", color |-> c]

\* new Chess(): the starting position, white to move
StartPlacement == [sq \in Squares |-> CASE sq = "a1" -> Pawn("w")
                                         [] sq = "b3" -> Pawn("b")
                                         [] OTHER -> NoPiece]
NewChess == [board |-> StartPlacement, turn |-> "w"]

\* new Chess(fen) and chess.fen(): the position and the side to move
LoadFen(fen) == [board |-> fen.placement, turn |-> fen.active]
Fen(chess)   == [placement |-> chess.board, active |-> chess.turn]

Other(c) == IF c = "w" THEN "b" ELSE "w"
Dir(c)      == IF c = "w" THEN 1 ELSE -1
LastRank(c) == IF c = "w" THEN 3 ELSE 1

\* chess.get(square)
Get(chess, sq) == chess.board[sq]

\* the squares a pawn on `from` may go to
PawnTargets(chess, from) ==
  LET c  == chess.board[from].color
      f  == FileOf(from)
      r  == RankOf(from)
      r1 == r + Dir(c)
      fwd  == IF r1 \in Ranks /\ chess.board[SquareAt(f, r1)] = NoPiece
              THEN {SquareAt(f, r1)} ELSE {}
      cap  == IF r1 \in Ranks
              THEN {sq \in Squares : /\ RankOf(sq) = r1
                                     /\ FileOf(sq) # f
                                     /\ chess.board[sq].color = Other(c)}
              ELSE {}
  IN fwd \cup cap

PromotionPieces == {"q"}

\* chess.moves({verbose: true}): the legal moves of the side to move; a pawn
\* that reaches the last rank yields one move per promotion piece
LegalMoves(chess) ==
  UNION { UNION { { [from |-> from, to |-> to, promotion |-> p] :
                      p \in IF RankOf(to) = LastRank(chess.turn)
                            THEN PromotionPieces ELSE {"-"} } :
                  to \in PawnTargets(chess, from) } :
          from \in { sq \in Squares : chess.board[sq] = Pawn(chess.turn) } }

\* the position after a legal move
Apply(chess, m) ==
  [board |-> [sq \in Squares |->
                CASE sq = m.from -> NoPiece
                  [] sq = m.to   -> IF m.promotion = "-" THEN chess.board[m.from]
                                    ELSE [type |-> m.promotion, color |-> chess.turn]
                  [] OTHER       -> chess.board[sq]],
   turn |-> Other(chess.turn)]

HasPieces(chess, c) == \E sq \in Squares : chess.board[sq].color = c
\* chess.isCheckmate(): the side to move has lost its last piece
IsCheckmate(chess) == ~HasPieces(chess, chess.turn)
\* chess.inCheck(): a piece of the side to move stands on a square an enemy pawn attacks
InCheck(chess) ==
  \E sq \in Squares : /\ chess.board[sq] = Pawn(Other(chess.turn))
                      /\ \E t \in Squares : /\ RankOf(t) = RankOf(sq) + Dir(Other(chess.turn))
                                            /\ FileOf(t) # FileOf(sq)
                                            /\ chess.board[t].color = chess.turn

\* move.san: the destination, the file of departure for a capture, the
\* promotion piece and the mate mark; the square of departure is not part of it
San(chess, m) ==
  [capture |-> IF chess.board[m.to] # NoPiece THEN Files[FileOf(m.from)] ELSE "-",
   to      |-> m.to,
   promotion |-> m.promotion,
   mate    |-> IsCheckmate(Apply(chess, m))]

\* chess.move({from, to, promotion}), given the legal moves of the position:
\* the legal moves the request matches; a legal move that promotes is matched
\* only by a request naming its piece.  No match: chess.move throws.
Move(legal, from, to, promotion) ==
  { m \in legal : /\ m.from = from
                  /\ m.to = to
                  /\ (m.promotion = "-" \/ m.promotion = promotion) }

\* chess.move(san): the legal moves whose notation is `san`
MoveSan(chess, san) == { m \in LegalMoves(chess) : San(chess, m) = san }

\* replaying a move history from the starting position: every notation must
\* name exactly one legal move of the position it is played in
RECURSIVE ReplayFrom(_, _)
ReplayFrom(chess, history) ==
  IF history = <<>> THEN Fen(chess)
  ELSE LET ms == MoveSan(chess, Head(history))
       IN IF Cardinality(ms) # 1
          THEN [placement |-> [sq \in Squares |-> NoPiece], active |-> "-"]
          ELSE ReplayFrom(Apply(chess, CHOOSE m \in ms : TRUE), Tail(history))
Replay(history) == ReplayFrom(NewChess, history)

\* ------------------------------------------------------------ the server
VARIABLES
  readyState,  \* ws.readyState of each connection
  clients,     \* the keys of the `clients` map
  session,     \* the ClientConnection object of each connection
  rooms,       \* the rooms table; a room's id is its index
  games,       \* the games table; a game's id is its index
  chatMessages,\* the chat_messages table, in the order of insertion
  inflight,    \* the message handlers suspended at an await (a bag)
  sent         \* the ws.send calls of the last step

vars == <<readyState, clients, session, rooms, games, chatMessages, inflight, sent>>

\* ------------------------------------------------- the useWebSocket hook
VARIABLE
  hook   \* the state of useWebSocket in the browser:
         \*   webSockets            readyState of each WebSocket the hook has created
         \*   isConnectingRef       isConnectingRef.current
         \*   reconnectAttemptsRef  reconnectAttemptsRef.current
         \*   timeouts              the setTimeout(connect, delay) timers; the id of one is its index
         \*   reconnectTimeoutRef   reconnectTimeoutRef.current: a timer id, 0 when undefined
         \*   scheduled             the delays of the reconnects scheduled since the last open

hookVars == <<hook>>

MaxSockets == 8   \* WebSocket objects created
maxReconnectAttempts == 3
\* event.code of a close event: a clean close, an abnormal one
CloseCodes == {1000, 1006}

\* useWebSocket mounted: the refs as created and the timer of the useEffect
Mount ==
  hook = [webSockets |-> <<>>,
          isConnectingRef |-> FALSE,
          reconnectAttemptsRef |-> 0,
          timeouts |-> <<[delay |-> 100, pending |-> TRUE]>>,
          reconnectTimeoutRef |-> 0,
          scheduled |-> <<>>]
\* a step of the server: the hook of the browser does not move
Idle == UNCHANGED hook

\* the codes generateRoomCode produces
Codes == {"AAAAAA"}
\* message.roomCode of join_room: a code in use or one that names no room
RoomCodeInputs == Codes \cup {"ZZZZZZ"}
\* message.promotion; "-" when the message carries none
PromotionInputs == {"-", "q"}
\* message.message of send_chat
ChatTexts == {"hi"}
\* message.type of a message that names none of the six handlers
OtherTypes == {"ping"}
\* the make_move messages
MakeMoveMessages ==
  [type : {"make_move"}, from : Squares, to : Squares, promotion : PromotionInputs]

\* clients.set(ws, { ws }): roomId, playerId and color are undefined
Unbound == [roomId |-> 0, playerId |-> 0, color |-> "-"]

Send(ws, event) == [to |-> ws, event |-> event]
\* Error sending the error event to every connection of the clients map
ErrorToAll(ws, text) ==
  { [to |-> c, event |-> [type |-> "error", message |-> text]] : c \in clients }
Error(ws, text) == {Send(ws, [type |-> "error", message |-> text])}

\* the sessions that are in the clients map with this roomId
SessionsOf(roomId) == { c \in clients : session[c].roomId = roomId }

\* broadcastToRoom without the comparison of client.roomId with roomId
broadcastToAll(roomId, message, exclude) ==
  { Send(c, message) : c \in { d \in clients :
                                 d # exclude /\ readyState[d] = "OPEN" } }
\* broadcastToRoom: clients.forEach, ws.send to the sessions of the room that
\* are open and are not `exclude` (0: no exclude)
broadcastToRoom(roomId, message, exclude) ==
  { Send(c, message) : c \in { d \in SessionsOf(roomId) :
                                 d # exclude /\ readyState[d] = "OPEN" } }

\* DatabaseStorage.getRoomByCode and getGameByRoomId: the ids of the matching rows
getRoomByCode(code)     == { id \in 1..Len(rooms) : rooms[id].code = code }
getGameByRoomId(roomId) == { id \in 1..Len(games) : games[id].roomId = roomId }
\* getChatMessages returning no row
getChatMessagesNone(roomId) == <<>>
\* DatabaseStorage.getChatMessages: the rows of the room, in order
getChatMessages(roomId) == SelectSeq(chatMessages, LAMBDA m : m.roomId = roomId)
First(ids) == CHOOSE id \in ids : \A other \in ids : id <= other

\* DatabaseStorage.updateGame(id, updates): the fields of `updates` replace
\* those of the row, the other fields stay
updateGame(id, updates) ==
  [games EXCEPT ![id] = [f \in DOMAIN games[id] |->
                           IF f \in DOMAIN updates THEN updates[f] ELSE games[id][f]]]
\* DatabaseStorage.updateRoom(id, updates)
updateRoom(id, updates) ==
  [rooms EXCEPT ![id] = [f \in DOMAIN rooms[id] |->
                           IF f \in DOMAIN updates THEN updates[f] ELSE rooms[id][f]]]

Suspend(ws, handler, pc, loc) ==
  [ws |-> ws, handler |-> handler, pc |-> pc, loc |-> loc]
At(t, handler, pc) ==
  /\ t.handler = handler
  /\ t.pc = pc
Continue(t, pc, loc) ==
  inflight' = (inflight (-) SetToBag({t}))
              (+) SetToBag({[t EXCEPT !.pc = pc, !.loc = loc]})
Finish(t) == inflight' = inflight (-) SetToBag({t})

\* ws.on('message') and handleWebSocketMessage: the message of an open
\* connection that is in the clients map reaches its handler
Accepts(ws) ==
  /\ readyState[ws] = "OPEN"
  /\ ws \in clients
  /\ BagCardinality(inflight) < MaxInFlight

Init ==
  /\ readyState = [c \in Conns |-> "CONNECTING"]
  /\ clients = {}
  /\ session = [c \in Conns |-> Unbound]
  /\ rooms = <<>>
  /\ games = <<>>
  /\ chatMessages = <<>>
  /\ inflight = EmptyBag
  /\ sent = {}
  /\ Mount

\* wss.on('connection'); connections are numbered in the order they open
Connection(ws) ==
  /\ readyState[ws] = "CONNECTING"
  /\ \A other \in Conns : other < ws => readyState[other] # "CONNECTING"
  /\ readyState' = [readyState EXCEPT ![ws] = "OPEN"]
  /\ clients' = clients \cup {ws}
  /\ session' = [session EXCEPT ![ws] = Unbound]
  /\ sent' = {Send(ws, [type |-> "connected"])}
  /\ UNCHANGED <<rooms, games, chatMessages, inflight>>

\* Close removing every session of the clients map
CloseAll(ws) ==
  /\ readyState[ws] = "OPEN"
  /\ Cardinality({ c \in Conns : readyState[c] = "CLOSED" }) < MaxCloses
  /\ readyState' = [readyState EXCEPT ![ws] = "CLOSED"]
  /\ clients' = {}
  /\ sent' = {}
  /\ UNCHANGED <<session, rooms, games, chatMessages, inflight>>

\* ws.on('close') and ws.on('error')
Close(ws) ==
  /\ readyState[ws] = "OPEN"
  /\ Cardinality({ c \in Conns : readyState[c] = "CLOSED" }) < MaxCloses
  /\ readyState' = [readyState EXCEPT ![ws] = "CLOSED"]
  /\ clients' = clients \ {ws}
  /\ sent' = {}
  /\ UNCHANGED <<session, rooms, games, chatMessages, inflight>>

\* ------------------------------------------------------------ create_room
\* storage.createRoom({ code }) for a generated code, up to
\* storage.createGame; rooms.code is unique, a second row with the code throws
\* and the catch of handleCreateRoom answers
createRoom(ws, code) ==
  /\ IF getRoomByCode(code) # {}
     THEN /\ sent' = Error(ws, "Failed to create room")
          /\ UNCHANGED <<rooms, inflight>>
     ELSE /\ rooms' = Append(rooms, [code |-> code, player1Id |-> 0,
                                     player2Id |-> 0, isActive |-> TRUE])
          /\ inflight' = inflight (+) SetToBag({
               Suspend(ws, "create_room", "createGame",
                       [code |-> code, roomId |-> Len(rooms) + 1])})
          /\ sent' = {}
  /\ UNCHANGED <<readyState, clients, session, games, chatMessages>>

\* handleCreateRoom: generateRoomCode and storage.createRoom({ code })
handleCreateRoom(ws) ==
  /\ Accepts(ws)
  /\ Len(rooms) < MaxRooms
  /\ \E code \in Codes : createRoom(ws, code)

\* storage.createGame, then the session is bound as white / seat 1, up to
\* storage.updateRoom
CreateRoom_createGame(t) ==
  /\ At(t, "create_room", "createGame")
  /\ games' = Append(games, [roomId |-> t.loc.roomId,
                             currentTurn |-> "white",
                             boardState |-> Fen(NewChess),
                             moveHistory |-> <<>>,
                             status |-> "waiting",
                             winner |-> "null"])
  /\ session' = IF t.ws \in clients
                THEN [session EXCEPT ![t.ws] =
                        [roomId |-> t.loc.roomId, playerId |-> 1, color |-> "white"]]
                ELSE session
  /\ Continue(t, "updateRoom", t.loc)
  /\ sent' = {}
  /\ UNCHANGED <<readyState, clients, rooms, chatMessages>>

\* storage.updateRoom(room.id, { player1Id: 1 }), then room_created
CreateRoom_updateRoom(t) ==
  /\ At(t, "create_room", "updateRoom")
  /\ rooms' = updateRoom(t.loc.roomId, [player1Id |-> 1])
  /\ sent' = {Send(t.ws, [type |-> "room_created",
                          roomCode |-> t.loc.code,
                          roomId |-> t.loc.roomId,
                          color |-> "white",
                          gameState |-> [fen |-> Fen(NewChess),
                                         currentTurn |-> "white",
                                         moveHistory |-> <<>>,
                                         status |-> "waiting"]])}
  /\ Finish(t)
  /\ UNCHANGED <<readyState, clients, session, games, chatMessages>>

\* -------------------------------------------------------------- join_room
\* JoinError without the check of room.player2Id
JoinErrorNoFullCheck(ids) ==
  IF ids = {} THEN "Room not found" ELSE ""

\* the answer of handleJoinRoom to the rooms getRoomByCode found; "" when the
\* join goes on
JoinError(ids) ==
  IF ids = {} THEN "Room not found"
  ELSE IF rooms[First(ids)].player2Id # 0 THEN "Room is full"
  ELSE ""

\* handleJoinRoom for one message: storage.getRoomByCode(message.roomCode) and
\* the checks on the room, up to storage.updateRoom
JoinRoom(ws, roomCode) ==
  LET ids == getRoomByCode(roomCode)
  IN /\ IF JoinError(ids) # ""
        THEN /\ sent' = Error(ws, JoinError(ids))
             /\ UNCHANGED inflight
        ELSE /\ sent' = {}
             /\ inflight' = inflight (+) SetToBag({
                  Suspend(ws, "join_room", "updateRoom", [roomId |-> First(ids)])})
     /\ UNCHANGED <<readyState, clients, session, rooms, games, chatMessages>>

handleJoinRoom(ws) ==
  /\ Accepts(ws)
  /\ \E roomCode \in RoomCodeInputs : JoinRoom(ws, roomCode)

\* storage.updateRoom(room.id, { player2Id: 2 }), then the session is bound
\* as black / seat 2, up to storage.getGameByRoomId
JoinRoom_updateRoom(t) ==
  /\ At(t, "join_room", "updateRoom")
  /\ rooms' = updateRoom(t.loc.roomId, [player2Id |-> 2])
  /\ session' = IF t.ws \in clients
                THEN [session EXCEPT ![t.ws] =
                        [roomId |-> t.loc.roomId, playerId |-> 2, color |-> "black"]]
                ELSE session
  /\ Continue(t, "getGameByRoomId", t.loc)
  /\ sent' = {}
  /\ UNCHANGED <<readyState, clients, games, chatMessages>>

\* storage.getGameByRoomId, up to storage.updateGame(game.id, { status: 'active' });
\* of the game it has read the handler uses id, boardState, currentTurn and
\* moveHistory
JoinRoom_getGameByRoomId(t) ==
  /\ At(t, "join_room", "getGameByRoomId")
  /\ LET ids == getGameByRoomId(t.loc.roomId)
     IN IF ids = {}
        THEN /\ sent' = Error(t.ws, "Game not found")
             /\ Finish(t)
        ELSE /\ sent' = {}
             /\ Continue(t, "updateGame",
                         [roomId |-> t.loc.roomId, gameId |-> First(ids),
                          game |-> [boardState  |-> games[First(ids)].boardState,
                                    currentTurn |-> games[First(ids)].currentTurn,
                                    moveHistory |-> games[First(ids)].moveHistory]])
  /\ UNCHANGED <<readyState, clients, session, rooms, games, chatMessages>>

\* storage.updateGame(game.id, { status: 'active' }), up to storage.getChatMessages
JoinRoom_updateGame(t) ==
  /\ At(t, "join_room", "updateGame")
  /\ games' = updateGame(t.loc.gameId, [status |-> "active"])
  /\ Continue(t, "getChatMessages", t.loc)
  /\ sent' = {}
  /\ UNCHANGED <<readyState, clients, session, rooms, chatMessages>>

\* storage.getChatMessages, then room_joined to the joiner and game_started
\* to the room; both carry the game as it was read before the update
JoinRoom_getChatMessages(t) ==
  /\ At(t, "join_room", "getChatMessages")
  /\ LET gs == [fen |-> t.loc.game.boardState,
                currentTurn |-> t.loc.game.currentTurn,
                moveHistory |-> t.loc.game.moveHistory,
                status |-> "active"]
     IN sent' = {Send(t.ws, [type |-> "room_joined",
                             roomCode |-> rooms[t.loc.roomId].code,
                             roomId |-> t.loc.roomId,
                             color |-> "black",
                             gameState |-> gs,
                             chatMessages |-> getChatMessages(t.loc.roomId)])}
                \cup broadcastToRoom(t.loc.roomId,
                                     [type |-> "game_started", gameState |-> gs], 0)
  /\ Finish(t)
  /\ UNCHANGED <<readyState, clients, session, rooms, games, chatMessages>>

\* -------------------------------------------------------------- make_move
\* GameError without the check of client.color against game.currentTurn
GameErrorNoTurnCheck(ws, ids) ==
  IF session[ws].roomId = 0 THEN "Not in a room"
  ELSE IF ids = {} THEN "Game not found"
  ELSE IF games[First(ids)].status # "active" THEN "Game is not active"
  ELSE ""

\* GameError without the check of client.roomId
GameErrorNoRoomCheck(ws, ids) ==
  IF ids = {} THEN "Game not found"
  ELSE IF games[First(ids)].status # "active" THEN "Game is not active"
  ELSE IF session[ws].color # games[First(ids)].currentTurn THEN "Not your turn"
  ELSE ""

\* GameError without the check of game.status
GameErrorNoStatusCheck(ws, ids) ==
  IF session[ws].roomId = 0 THEN "Not in a room"
  ELSE IF ids = {} THEN "Game not found"
  ELSE IF session[ws].color # games[First(ids)].currentTurn THEN "Not your turn"
  ELSE ""

\* GameError with the check of the turn before the check of game.status
GameErrorTurnFirst(ws, ids) ==
  IF session[ws].roomId = 0 THEN "Not in a room"
  ELSE IF ids = {} THEN "Game not found"
  ELSE IF session[ws].color # games[First(ids)].currentTurn THEN "Not your turn"
  ELSE IF games[First(ids)].status # "active" THEN "Game is not active"
  ELSE ""

\* the checks of handleMakeMove that do not look at the move, in the order
\* of the code; "" when they pass
GameError(ws, ids) ==
  IF session[ws].roomId = 0 THEN "Not in a room"
  ELSE IF ids = {} THEN "Game not found"
  ELSE IF games[First(ids)].status # "active" THEN "Game is not active"
  ELSE IF session[ws].color # games[First(ids)].currentTurn THEN "Not your turn"
  ELSE ""

\* MoveMade with a queen taken when the message names no promotion piece
MoveMadeAutoQueen(legal, msg) ==
  LET first == Move(legal, msg.from, msg.to, "-")
  IN IF first # {} THEN first
     ELSE IF msg.promotion # "-" THEN Move(legal, msg.from, msg.to, msg.promotion)
     ELSE Move(legal, msg.from, msg.to, "q")

\* the move chess.move returned: the attempt without promotion, else, when
\* the message carries a promotion, the attempt with it; {} when it threw
MoveMade(legal, msg) ==
  LET first == Move(legal, msg.from, msg.to, "-")
  IN IF first # {} THEN first
     ELSE IF msg.promotion # "-" THEN Move(legal, msg.from, msg.to, msg.promotion)
     ELSE {}

\* MoveError without the check of piece.color against expectedColor
MoveErrorNoOwnerCheck(game, chess, legal, msg) ==
  IF Get(chess, msg.from) = NoPiece THEN "No piece at source square"
  ELSE IF MoveMade(legal, msg) = {} THEN "Invalid move"
  ELSE ""

\* the checks of handleMakeMove on the piece and the move, in the order of
\* the code; "" when the move passes them all
MoveError(game, chess, legal, msg) ==
  LET piece == Get(chess, msg.from)
      expectedColor == IF game.currentTurn = "white" THEN "w" ELSE "b"
  IN IF piece = NoPiece THEN "No piece at source square"
     ELSE IF piece.color # expectedColor THEN "Cannot move opponent's piece"
     ELSE IF MoveMade(legal, msg) = {} THEN "Invalid move"
     ELSE ""

\* move.san, move.piece and move.captured of the move chess.move returned
MoveResult(chess, move) ==
  [san |-> San(chess, move),
   piece |-> chess.board[move.from].type,
   captured |-> chess.board[move.to].type]

\* MoveUpdate with boardState taken before chess.move instead of after it
MoveUpdateStaleBoard(game, chess, move) ==
  LET after == Apply(chess, move)
      mate  == IsCheckmate(after)
  IN [boardState  |-> Fen(chess),
      currentTurn |-> IF after.turn = "w" THEN "white" ELSE "black",
      moveHistory |-> Append(game.moveHistory, San(chess, move)),
      status      |-> IF mate THEN "checkmate" ELSE "active",
      winner      |-> IF mate THEN game.currentTurn ELSE "null"]

\* MoveUpdate with the winner of a checkmate taken after the turn has passed
MoveUpdateLoserWins(game, chess, move) ==
  LET after == Apply(chess, move)
      mate  == IsCheckmate(after)
  IN [boardState  |-> Fen(after),
      currentTurn |-> IF after.turn = "w" THEN "white" ELSE "black",
      moveHistory |-> Append(game.moveHistory, San(chess, move)),
      status      |-> IF mate THEN "checkmate" ELSE "active",
      winner      |-> IF mate THEN (IF after.turn = "w" THEN "white" ELSE "black")
                      ELSE "null"]

\* MoveUpdate with a draw declared when the side to move has no legal move
MoveUpdateAutoDraw(game, chess, move) ==
  LET after == Apply(chess, move)
      mate  == IsCheckmate(after)
  IN [boardState  |-> Fen(after),
      currentTurn |-> IF after.turn = "w" THEN "white" ELSE "black",
      moveHistory |-> Append(game.moveHistory, San(chess, move)),
      status      |-> IF mate THEN "checkmate"
                      ELSE IF LegalMoves(after) = {} THEN "draw" ELSE "active",
      winner      |-> IF mate THEN game.currentTurn ELSE "null"]

\* the fields handleMakeMove passes to storage.updateGame
MoveUpdate(game, chess, move) ==
  LET after == Apply(chess, move)
      mate  == IsCheckmate(after)
  IN [boardState  |-> Fen(after),
      currentTurn |-> IF after.turn = "w" THEN "white" ELSE "black",
      moveHistory |-> Append(game.moveHistory, San(chess, move)),
      status      |-> IF mate THEN "checkmate" ELSE "active",
      winner      |-> IF mate THEN game.currentTurn ELSE "null"]

\* handleMakeMove from the piece check on, for one message, given the game
\* the handler read, the position loaded from its boardState and the legal
\* moves of that position: an error, or the handler goes on to
\* storage.updateGame
ValidateMoveIn(ws, ids, game, chess, legal, message) ==
  /\ \E err \in {MoveError(game, chess, legal, message)} :
       IF err # ""
       THEN /\ sent' = Error(ws, err)
            /\ UNCHANGED inflight
       ELSE \E move \in {CHOOSE m \in MoveMade(legal, message) : TRUE} :
              /\ sent' = {}
              /\ inflight' = inflight (+) SetToBag({
                   Suspend(ws, "make_move", "updateGame",
                           [gameId  |-> First(ids),
                            message |-> message,
                            move    |-> MoveResult(chess, move),
                            update  |-> MoveUpdate(game, chess, move)])})
  /\ UNCHANGED <<readyState, clients, session, rooms, games, chatMessages>>

\* handleMakeMove from new Chess(game.boardState) on, for one message
ValidateMove(ws, ids, message) ==
  LET game  == games[First(ids)]
      chess == LoadFen(game.boardState)
      legal == LegalMoves(chess)
  IN ValidateMoveIn(ws, ids, game, chess, legal, message)

\* handleMakeMove: storage.getGameByRoomId(client.roomId) and the validation
\* of the move, up to storage.updateGame
handleMakeMove(ws) ==
  /\ Accepts(ws)
  /\ LET ids == getGameByRoomId(session[ws].roomId)
     IN IF GameError(ws, ids) # ""
        THEN /\ sent' = Error(ws, GameError(ws, ids))
             /\ UNCHANGED <<readyState, clients, session, rooms, games, chatMessages, inflight>>
        ELSE \E chess \in {LoadFen(games[First(ids)].boardState)} :
             \E legal \in {LegalMoves(chess)} :
             \E message \in MakeMoveMessages :
               ValidateMoveIn(ws, ids, games[First(ids)], chess, legal, message)

\* move_made with the board of the game record as it is before the write
move_madeStaleBoard(t) ==
  LET u     == t.loc.update
      chess == LoadFen(u.boardState)
  IN [type |-> "move_made",
      move |-> [from |-> t.loc.message.from, to |-> t.loc.message.to,
                promotion |-> t.loc.message.promotion,
                san |-> t.loc.move.san,
                piece |-> t.loc.move.piece,
                captured |-> t.loc.move.captured],
      gameState |-> [fen |-> games[t.loc.gameId].boardState,
                     currentTurn |-> u.currentTurn,
                     moveHistory |-> u.moveHistory,
                     status |-> u.status,
                     winner |-> u.winner,
                     check |-> InCheck(chess),
                     checkmate |-> IsCheckmate(chess),
                     draw |-> FALSE,
                     stalemate |-> FALSE,
                     turn |-> chess.turn,
                     gameOver |-> (u.status # "active")]]

\* the move_made event of a validated move
move_made(t) ==
  LET u     == t.loc.update
      chess == LoadFen(u.boardState)
  IN [type |-> "move_made",
      move |-> [from |-> t.loc.message.from, to |-> t.loc.message.to,
                promotion |-> t.loc.message.promotion,
                san |-> t.loc.move.san,
                piece |-> t.loc.move.piece,
                captured |-> t.loc.move.captured],
      gameState |-> [fen |-> u.boardState,
                     currentTurn |-> u.currentTurn,
                     moveHistory |-> u.moveHistory,
                     status |-> u.status,
                     winner |-> u.winner,
                     check |-> InCheck(chess),
                     checkmate |-> IsCheckmate(chess),
                     draw |-> FALSE,
                     stalemate |-> FALSE,
                     turn |-> chess.turn,
                     gameOver |-> (u.status # "active")]]

\* MakeMove_updateGame with the mover left out of the broadcast
MakeMove_updateGameNotMover(t) ==
  /\ At(t, "make_move", "updateGame")
  /\ games' = updateGame(t.loc.gameId, t.loc.update)
  /\ sent' = broadcastToRoom(session[t.ws].roomId, move_made(t), t.ws)
  /\ Finish(t)
  /\ UNCHANGED <<readyState, clients, session, rooms, chatMessages>>

\* storage.updateGame(game.id, {...}), then move_made to the room of the session
MakeMove_updateGame(t) ==
  /\ At(t, "make_move", "updateGame")
  /\ games' = updateGame(t.loc.gameId, t.loc.update)
  /\ sent' = broadcastToRoom(session[t.ws].roomId, move_made(t), 0)
  /\ Finish(t)
  /\ UNCHANGED <<readyState, clients, session, rooms, chatMessages>>

\* ----------------------------------------------------------------- resign
\* handleResign: storage.getGameByRoomId(client.roomId) and the winner, up to
\* storage.updateGame; `status` is the status of the game the handler has read,
\* which the code does not look at
handleResign(ws) ==
  /\ Accepts(ws)
  /\ LET ids == getGameByRoomId(session[ws].roomId)
         err == IF session[ws].roomId = 0 THEN "Not in a room"
                ELSE IF ids = {} THEN "Game not found"
                ELSE ""
     IN IF err # ""
        THEN /\ sent' = Error(ws, err)
             /\ UNCHANGED inflight
        ELSE /\ sent' = {}
             /\ inflight' = inflight (+) SetToBag({
                  Suspend(ws, "resign", "updateGame",
                          [gameId |-> First(ids),
                           status |-> games[First(ids)].status,
                           winner |-> IF session[ws].color = "white"
                                      THEN "black" ELSE "white"])})
  /\ UNCHANGED <<readyState, clients, session, rooms, games, chatMessages>>

\* storage.updateGame(game.id, { status: 'resigned', winner }), then game_ended
Resign_updateGame(t) ==
  /\ At(t, "resign", "updateGame")
  /\ games' = updateGame(t.loc.gameId, [status |-> "resigned", winner |-> t.loc.winner])
  /\ sent' = broadcastToRoom(session[t.ws].roomId,
               [type |-> "game_ended", reason |-> "resignation",
                winner |-> t.loc.winner,
                resignedPlayer |-> session[t.ws].color], 0)
  /\ Finish(t)
  /\ UNCHANGED <<readyState, clients, session, rooms, chatMessages>>

\* ------------------------------------------------- send_chat, offer_draw
\* handleSendChat: storage.addChatMessage, then chat_message to the room
handleSendChat(ws) ==
  /\ readyState[ws] = "OPEN"
  /\ ws \in clients
  /\ IF session[ws].roomId = 0
     THEN /\ sent' = Error(ws, "Not in a room")
          /\ UNCHANGED chatMessages
     ELSE /\ Len(chatMessages) < MaxChats
          /\ \E text \in ChatTexts :
               /\ chatMessages' = Append(chatMessages,
                                         [roomId |-> session[ws].roomId,
                                          playerId |-> session[ws].playerId,
                                          message |-> text])
               /\ sent' = broadcastToRoom(session[ws].roomId,
                            [type |-> "chat_message",
                             message |-> [id |-> Len(chatMessages) + 1,
                                          playerId |-> session[ws].playerId,
                                          message |-> text]], 0)
  /\ UNCHANGED <<readyState, clients, session, rooms, games, inflight>>

\* handleOfferDraw with no connection excluded from the broadcast
handleOfferDrawToAll(ws) ==
  /\ readyState[ws] = "OPEN"
  /\ ws \in clients
  /\ sent' = IF session[ws].roomId = 0
             THEN Error(ws, "Not in a room")
             ELSE broadcastToRoom(session[ws].roomId,
                    [type |-> "draw_offered", offeredBy |-> session[ws].color], 0)
  /\ UNCHANGED <<readyState, clients, session, rooms, games, chatMessages, inflight>>

\* handleOfferDraw: draw_offered to the other sessions of the room
handleOfferDraw(ws) ==
  /\ readyState[ws] = "OPEN"
  /\ ws \in clients
  /\ sent' = IF session[ws].roomId = 0
             THEN Error(ws, "Not in a room")
             ELSE broadcastToRoom(session[ws].roomId,
                    [type |-> "draw_offered", offeredBy |-> session[ws].color], ws)
  /\ UNCHANGED <<readyState, clients, session, rooms, games, chatMessages, inflight>>

\* ------------------------------------------- input that names no handler
\* ws.on('message'): JSON.parse throws, the catch answers
InvalidMessage(ws) ==
  /\ readyState[ws] = "OPEN"
  /\ sent' = Error(ws, "Invalid message format")
  /\ UNCHANGED <<readyState, clients, session, rooms, games, chatMessages, inflight>>

\* handleWebSocketMessage: no case of the switch matches message.type
UnknownType(ws) ==
  /\ readyState[ws] = "OPEN"
  /\ ws \in clients
  /\ \E type \in OtherTypes :
       /\ sent' = {}
       /\ UNCHANGED <<readyState, clients, session, rooms, games, chatMessages, inflight>>

Next ==
  \/ \E ws \in Conns : Connection(ws) /\ Idle
  \/ \E ws \in Conns : Close(ws) /\ Idle
  \/ \E ws \in Conns : handleCreateRoom(ws) /\ Idle
  \/ \E t \in BagToSet(inflight) : CreateRoom_createGame(t) /\ Idle
  \/ \E t \in BagToSet(inflight) : CreateRoom_updateRoom(t) /\ Idle
  \/ \E ws \in Conns : handleJoinRoom(ws) /\ Idle
  \/ \E t \in BagToSet(inflight) : JoinRoom_updateRoom(t) /\ Idle
  \/ \E t \in BagToSet(inflight) : JoinRoom_getGameByRoomId(t) /\ Idle
  \/ \E t \in BagToSet(inflight) : JoinRoom_updateGame(t) /\ Idle
  \/ \E t \in BagToSet(inflight) : JoinRoom_getChatMessages(t) /\ Idle
  \/ \E ws \in Conns : handleMakeMove(ws) /\ Idle
  \/ \E t \in BagToSet(inflight) : MakeMove_updateGame(t) /\ Idle
  \/ \E ws \in Conns : handleResign(ws) /\ Idle
  \/ \E t \in BagToSet(inflight) : Resign_updateGame(t) /\ Idle
  \/ \E ws \in Conns : handleSendChat(ws) /\ Idle
  \/ \E ws \in Conns : handleOfferDraw(ws) /\ Idle
  \/ \E ws \in Conns : InvalidMessage(ws) /\ Idle
  \/ \E ws \in Conns : UnknownType(ws) /\ Idle

Spec == Init /\ [][Next]_vars

\* ------------------------------------------------- rooms and their codes
\* the rooms and the codes of several create_room messages, without the play
MaxRoomsWide == 2   \* rooms persisted
\* Math.random().toString(36): "0." and the base-36 digits of the fraction,
\* as many as the fraction needs (0.5 is "0.i")
RandomStrings ==
  { <<"0", ".", "4", "f", "z", "y", "o", "8", "2", "m">>,
    <<"0", ".", "k", "x", "9", "q", "0", "h", "t", "3">>,
    <<"0", ".", "i">> }
LowerCase == <<"a", "b", "c", "d", "e", "f", "g", "h", "i", "j", "k", "l", "m",
               "n", "o", "p", "q", "r", "s", "t", "u", "v", "w", "x", "y", "z">>
UpperCase == <<"A", "B", "C", "D", "E", "F", "G", "H", "I", "J", "K", "L", "M",
               "N", "O", "P", "Q", "R", "S", "T", "U", "V", "W", "X", "Y", "Z">>
\* String.prototype.toUpperCase
toUpperCase(str) ==
  [i \in 1..Len(str) |->
     IF \E k \in 1..26 : LowerCase[k] = str[i]
     THEN UpperCase[CHOOSE k \in 1..26 : LowerCase[k] = str[i]]
     ELSE str[i]]
\* String.prototype.substring(start, end): the characters at the 0-based
\* positions start .. end - 1 that the string has
substring(str, start, end) ==
  SubSeq(str, start + 1, IF end < Len(str) THEN end ELSE Len(str))
\* generateRoomCode for one value of Math.random()
generateRoomCode(random) == toUpperCase(substring(random, 2, 8))

\* handleCreateRoom with the code generateRoomCode returns
handleCreateRoomAny(ws) ==
  /\ Accepts(ws)
  /\ \E random \in RandomStrings :
       /\ getRoomByCode(generateRoomCode(random)) = {} => Len(rooms) < MaxRoomsWide
       /\ createRoom(ws, generateRoomCode(random))

\* handleJoinRoom with message.roomCode one of the codes
handleJoinRoomAny(ws) ==
  /\ Accepts(ws)
  /\ \E random \in RandomStrings : JoinRoom(ws, generateRoomCode(random))

NextRooms ==
  \/ \E ws \in Conns : Connection(ws) /\ Idle
  \/ \E ws \in Conns : handleCreateRoomAny(ws) /\ Idle
  \/ \E t \in BagToSet(inflight) : CreateRoom_createGame(t) /\ Idle
  \/ \E t \in BagToSet(inflight) : CreateRoom_updateRoom(t) /\ Idle
  \/ \E ws \in Conns : handleJoinRoomAny(ws) /\ Idle
  \/ \E t \in BagToSet(inflight) : JoinRoom_updateRoom(t) /\ Idle
  \/ \E t \in BagToSet(inflight) : JoinRoom_getGameByRoomId(t) /\ Idle
  \/ \E t \in BagToSet(inflight) : JoinRoom_updateGame(t) /\ Idle
  \/ \E t \in BagToSet(inflight) : JoinRoom_getChatMessages(t) /\ Idle

SpecRooms == Init /\ [][NextRooms]_vars

\* ------------------------------------------------------ a ws.send throws
\* broadcastToRoom when ws.send to `failing` throws: clients.forEach visits
\* the connections in the order they were added to the map, the sends before
\* the one that throws are made and the exception ends the forEach
broadcastThrows(roomId, message, exclude, failing) ==
  { e \in broadcastToRoom(roomId, message, exclude) : e.to < failing }

\* storage.updateGame(game.id, {...}), then move_made to the room of the
\* session with a ws.send that throws: the exception leaves broadcastToRoom
\* and the catch of handleMakeMove answers the sender, whose own socket does
\* not take the answer when it is the one that fails
MakeMove_sendThrows(t) ==
  /\ At(t, "make_move", "updateGame")
  /\ games' = updateGame(t.loc.gameId, t.loc.update)
  /\ \E e \in broadcastToRoom(session[t.ws].roomId, move_made(t), 0) :
       sent' = broadcastThrows(session[t.ws].roomId, move_made(t), 0, e.to)
                 \cup (IF t.ws # e.to THEN Error(t.ws, "Failed to make move")
                       ELSE {})
  /\ Finish(t)
  /\ UNCHANGED <<readyState, clients, session, rooms, chatMessages>>

NextSendFailure ==
  \/ \E ws \in Conns : Connection(ws) /\ Idle
  \/ \E ws \in Conns : handleCreateRoom(ws) /\ Idle
  \/ \E t \in BagToSet(inflight) : CreateRoom_createGame(t) /\ Idle
  \/ \E t \in BagToSet(inflight) : CreateRoom_updateRoom(t) /\ Idle
  \/ \E ws \in Conns : handleJoinRoom(ws) /\ Idle
  \/ \E t \in BagToSet(inflight) : JoinRoom_updateRoom(t) /\ Idle
  \/ \E t \in BagToSet(inflight) : JoinRoom_getGameByRoomId(t) /\ Idle
  \/ \E t \in BagToSet(inflight) : JoinRoom_updateGame(t) /\ Idle
  \/ \E t \in BagToSet(inflight) : JoinRoom_getChatMessages(t) /\ Idle
  \/ \E ws \in Conns : handleMakeMove(ws) /\ Idle
  \/ \E t \in BagToSet(inflight) : MakeMove_updateGame(t) /\ Idle
  \/ \E t \in BagToSet(inflight) : MakeMove_sendThrows(t) /\ Idle

SpecSendFailure == Init /\ [][NextSendFailure]_vars

\* ------------------------------------------------- a storage call throws
\* handleMakeMove when storage.getGameByRoomId(client.roomId) throws: the
\* catch of the handler answers the sender
MakeMove_getGameByRoomIdThrows(ws) ==
  /\ Accepts(ws)
  /\ session[ws].roomId # 0
  /\ sent' = Error(ws, "Failed to make move")
  /\ UNCHANGED <<readyState, clients, session, rooms, games, chatMessages, inflight>>

\* MakeMove_updateGameThrows with the row written before the exception
MakeMove_updateGameThrowsWritten(t) ==
  /\ At(t, "make_move", "updateGame")
  /\ games' = updateGame(t.loc.gameId, t.loc.update)
  /\ sent' = Error(t.ws, "Failed to make move")
  /\ Finish(t)
  /\ UNCHANGED <<readyState, clients, session, rooms, chatMessages>>
\* handleMakeMove when storage.updateGame(game.id, {...}) throws: the UPDATE
\* has written nothing, broadcastToRoom is not reached and the catch of the
\* handler answers the sender
MakeMove_updateGameThrows(t) ==
  /\ At(t, "make_move", "updateGame")
  /\ sent' = Error(t.ws, "Failed to make move")
  /\ Finish(t)
  /\ UNCHANGED <<readyState, clients, session, rooms, games, chatMessages>>

NextStorageFailure ==
  \/ \E ws \in Conns : Connection(ws) /\ Idle
  \/ \E ws \in Conns : handleCreateRoom(ws) /\ Idle
  \/ \E t \in BagToSet(inflight) : CreateRoom_createGame(t) /\ Idle
  \/ \E t \in BagToSet(inflight) : CreateRoom_updateRoom(t) /\ Idle
  \/ \E ws \in Conns : handleJoinRoom(ws) /\ Idle
  \/ \E t \in BagToSet(inflight) : JoinRoom_updateRoom(t) /\ Idle
  \/ \E t \in BagToSet(inflight) : JoinRoom_getGameByRoomId(t) /\ Idle
  \/ \E t \in BagToSet(inflight) : JoinRoom_updateGame(t) /\ Idle
  \/ \E t \in BagToSet(inflight) : JoinRoom_getChatMessages(t) /\ Idle
  \/ \E ws \in Conns : handleMakeMove(ws) /\ Idle
  \/ \E ws \in Conns : MakeMove_getGameByRoomIdThrows(ws) /\ Idle
  \/ \E t \in BagToSet(inflight) : MakeMove_updateGame(t) /\ Idle
  \/ \E t \in BagToSet(inflight) : MakeMove_updateGameThrows(t) /\ Idle

SpecStorageFailure == Init /\ [][NextStorageFailure]_vars

\* ------------------------------------------ useWebSocket: the reconnects
\* clearTimeout(id) on a table of timers
clearTimeout(table, id) ==
  IF id = 0 THEN table ELSE [table EXCEPT ![id].pending = FALSE]

\* connect(), called by a timer that has fired; `table` is the timers
\* without it. While a connection is being made the call returns; else it
\* clears the reconnect timer and creates a WebSocket
connect(table) ==
  hook' = IF hook.isConnectingRef
          THEN [hook EXCEPT !.timeouts = table]
          ELSE [hook EXCEPT
                  !.isConnectingRef = TRUE,
                  !.timeouts = clearTimeout(table, hook.reconnectTimeoutRef),
                  !.webSockets = Append(hook.webSockets, "CONNECTING")]

\* a timer set by setTimeout fires: the timer of the useEffect or a
\* reconnect timer, both call connect
Timeout(id) ==
  /\ hook.timeouts[id].pending
  /\ hook.isConnectingRef \/ Len(hook.webSockets) < MaxSockets
  /\ connect([hook.timeouts EXCEPT ![id].pending = FALSE])
  /\ UNCHANGED vars

\* ws.onopen
onopen(ws) ==
  /\ hook.webSockets[ws] = "CONNECTING"
  /\ hook' = [hook EXCEPT !.webSockets[ws] = "OPEN",
                          !.reconnectAttemptsRef = 0,
                          !.isConnectingRef = FALSE,
                          !.scheduled = <<>>]
  /\ UNCHANGED vars

\* onclose that schedules a reconnect while the attempts are at most the maximum
oncloseOneMore(ws, code) ==
  /\ hook.webSockets[ws] \in {"CONNECTING", "OPEN"}
  /\ code = 1000 => hook.webSockets[ws] = "OPEN"
  /\ hook' = IF code # 1000 /\ hook.reconnectAttemptsRef <= maxReconnectAttempts
             THEN [hook EXCEPT
                     !.webSockets[ws] = "CLOSED",
                     !.isConnectingRef = FALSE,
                     !.reconnectAttemptsRef = @ + 1,
                     !.timeouts = Append(@,
                        [delay |-> 2000 + (hook.reconnectAttemptsRef + 1) * 1000,
                         pending |-> TRUE]),
                     !.reconnectTimeoutRef = Len(hook.timeouts) + 1,
                     !.scheduled = Append(@,
                        2000 + (hook.reconnectAttemptsRef + 1) * 1000)]
             ELSE [hook EXCEPT !.webSockets[ws] = "CLOSED",
                               !.isConnectingRef = FALSE]
  /\ UNCHANGED vars
\* the close of a WebSocket: ws.onclose with event.code, after ws.onerror in
\* the same task when the connection failed (both clear isConnectingRef); a
\* connection that never opened does not close cleanly
onclose(ws, code) ==
  /\ hook.webSockets[ws] \in {"CONNECTING", "OPEN"}
  /\ code = 1000 => hook.webSockets[ws] = "OPEN"
  /\ hook' = IF code # 1000 /\ hook.reconnectAttemptsRef < maxReconnectAttempts
             THEN [hook EXCEPT
                     !.webSockets[ws] = "CLOSED",
                     !.isConnectingRef = FALSE,
                     !.reconnectAttemptsRef = @ + 1,
                     !.timeouts = Append(@,
                        [delay |-> 2000 + (hook.reconnectAttemptsRef + 1) * 1000,
                         pending |-> TRUE]),
                     !.reconnectTimeoutRef = Len(hook.timeouts) + 1,
                     !.scheduled = Append(@,
                        2000 + (hook.reconnectAttemptsRef + 1) * 1000)]
             ELSE [hook EXCEPT !.webSockets[ws] = "CLOSED",
                               !.isConnectingRef = FALSE]
  /\ UNCHANGED vars

NextHook ==
  \/ \E id \in DOMAIN hook.timeouts : Timeout(id)
  \/ \E ws \in DOMAIN hook.webSockets : onopen(ws)
  \/ \E ws \in DOMAIN hook.webSockets : \E code \in CloseCodes : onclose(ws, code)

SpecHook == Init /\ [][NextHook]_hookVars

\* ------------------------------------------------------------ properties
Tasks == BagToSet(inflight)
Terminal(status) == status \in {"checkmate", "resigned", "draw"}
Opposite(color) == IF color = "white" THEN "black" ELSE "white"
IsPrefix(s1, s2) == Len(s1) <= Len(s2) /\ SubSeq(s2, 1, Len(s1)) = s1
\* the step is storage.updateGame of a make_move / of a resign on game g
MoveCommit(g) ==
  \E t \in Tasks : At(t, "make_move", "updateGame") /\ t.loc.gameId = g
                   /\ MakeMove_updateGame(t)
ResignCommit(g) ==
  \E t \in Tasks : At(t, "resign", "updateGame") /\ t.loc.gameId = g
                   /\ Resign_updateGame(t)

\* C1: once the persisted status of a game is checkmate or resigned, no
\* make_move and no resign changes its persisted status or its persisted winner.
C1_TerminalImmutable ==
  [][\A g \in 1..Len(games) :
       (/\ games[g].status \in {"checkmate", "resigned"}
        /\ (MoveCommit(g) \/ ResignCommit(g)))
       => /\ games'[g].status = games[g].status
          /\ games'[g].winner = games[g].winner]_vars

StatusRank(status) == CASE status = "waiting" -> 0
                        [] status = "active" -> 1
                        [] OTHER -> 2

\* C2: the persisted status of a game only moves forward, waiting -> active
\* -> {checkmate, resigned, draw}, and no step, a join_room included, changes
\* a terminal status to another status.
C2_StatusForward ==
  [][\A g \in 1..Len(games) :
       /\ StatusRank(games'[g].status) >= StatusRank(games[g].status)
       /\ Terminal(games[g].status) => games'[g].status = games[g].status]_vars

\* C3: a make_move commits only while the persisted currentTurn is still the
\* turn its handler read, so of the make_move handlers in flight for one
\* value of currentTurn at most one commits.
C3_MoveRaceResolved ==
  [][\A t \in Tasks :
       (At(t, "make_move", "updateGame") /\ MakeMove_updateGame(t))
       => games[t.loc.gameId].currentTurn = Opposite(t.loc.update.currentTurn)]_vars

\* C4: in every reachable state at most two sessions of the clients map
\* reference a room, and at most one of them is seated as black.
C4_RoomCapacity ==
  \A r \in 1..Len(rooms) :
    /\ Cardinality(SessionsOf(r)) <= 2
    /\ Cardinality({ c \in SessionsOf(r) : session[c].color = "black" }) <= 1

\* C5: a make_move that commits changes the persisted currentTurn from the
\* mover's colour to the opposite colour, and every other step, a rejected
\* make_move included, leaves currentTurn unchanged.
C5_TurnAlternates ==
  [][\A g \in 1..Len(games) :
       IF MoveCommit(g)
       THEN /\ \E t \in Tasks : /\ At(t, "make_move", "updateGame")
                                /\ t.loc.gameId = g
                                /\ MakeMove_updateGame(t)
                                /\ games[g].currentTurn = session[t.ws].color
            /\ games'[g].currentTurn = Opposite(games[g].currentTurn)
       ELSE games'[g].currentTurn = games[g].currentTurn]_vars

\* the session is bound to a room that has a game, and its colour is not the
\* game's persisted currentTurn
OutOfTurn(ws) ==
  /\ session[ws].roomId # 0
  /\ getGameByRoomId(session[ws].roomId) # {}
  /\ session[ws].color # games[First(getGameByRoomId(session[ws].roomId))].currentTurn
GameOf(ws) == games[First(getGameByRoomId(session[ws].roomId))]
NotYourTurn(ws) ==
  /\ sent' = Error(ws, "Not your turn")
  /\ UNCHANGED <<games, rooms, chatMessages, session, clients, inflight>>

\* C6 as stated: a make_move from a session whose colour differs from the
\* game's persisted currentTurn always fails with the turn error sent to that
\* connection only, and changes nothing.
C6_OutOfTurnAlways ==
  [][\A ws \in Conns :
       (OutOfTurn(ws) /\ handleMakeMove(ws)) => NotYourTurn(ws)]_vars

\* C6, amended: a make_move from a session whose colour differs from the
\* persisted currentTurn of an active game fails with the turn error sent to
\* that connection only, and changes neither the game record nor anything
\* else; in a game that is not active the status check answers first.
C6_OutOfTurnRejected ==
  [][\A ws \in Conns :
       (OutOfTurn(ws) /\ GameOf(ws).status = "active" /\ handleMakeMove(ws))
       => NotYourTurn(ws)]_vars
C6_Witness == \E ws \in Conns : sent = Error(ws, "Not your turn")

\* C7: in every reachable state the persisted boardState of a game is the
\* position reached by replaying its persisted moveHistory from the initial
\* position.
C7_BoardIsReplay ==
  \A g \in 1..Len(games) : games[g].boardState = Replay(games[g].moveHistory)
C7_Witness ==
  \E g \in 1..Len(games) : /\ Len(games[g].moveHistory) >= 3
                           /\ games[g].boardState # Fen(NewChess)

\* C8: a make_move that commits sets the persisted moveHistory to the
\* previously persisted moveHistory with one notation appended, and no step
\* drops or replaces a notation: the old value is a prefix of the new one.
C8_HistoryAppendOnly ==
  [][\A g \in 1..Len(games) :
       /\ IsPrefix(games[g].moveHistory, games'[g].moveHistory)
       /\ MoveCommit(g) =>
            Len(games'[g].moveHistory) = Len(games[g].moveHistory) + 1]_vars

\* C9: a join_room for a room whose seat 2 is taken is answered with the
\* room-full error to the joining connection only; the room record, every
\* session and the games stay as they are and no handler is started.
C9_JoinFullRoom ==
  [][\A ws \in Conns : \A roomCode \in RoomCodeInputs :
       (/\ Accepts(ws)
        /\ getRoomByCode(roomCode) # {}
        /\ rooms[First(getRoomByCode(roomCode))].player2Id # 0
        /\ JoinRoom(ws, roomCode))
       => /\ sent' = Error(ws, "Room is full")
          /\ UNCHANGED <<rooms, session, clients, games, chatMessages, inflight>>]_vars
C9_Witness ==
  /\ \E ws \in Conns : sent = Error(ws, "Room is full")
  /\ \E r \in 1..Len(rooms) : rooms[r].player2Id # 0

\* the piece chess.get(message.from) returns for a make_move of ws
PieceAt(ws, message) == Get(LoadFen(GameOf(ws).boardState), message.from)
SideToMove(ws) == IF GameOf(ws).currentTurn = "white" THEN "w" ELSE "b"
Rejected(ws, text) ==
  /\ sent' = Error(ws, text)
  /\ UNCHANGED <<games, rooms, chatMessages, session, clients, inflight>>

\* the handler of this make_move of ws ends as a rejection with `text`, and
\* cannot end in any other way
AlwaysRejected(ws, message, text) ==
  /\ ENABLED (/\ ValidateMove(ws, getGameByRoomId(session[ws].roomId), message)
              /\ Rejected(ws, text))
  /\ ~ENABLED (/\ ValidateMove(ws, getGameByRoomId(session[ws].roomId), message)
               /\ ~Rejected(ws, text))

\* C10: a make_move by the side to move in an active game fails with the
\* no-piece error when its from-square is empty, and with the opponent's-piece
\* error when the square holds a piece of the other colour; the game record
\* is unchanged and only the error is sent.
C10_NoPieceWrongOwner ==
  \A ws \in Conns :
    (Accepts(ws) /\ GameError(ws, getGameByRoomId(session[ws].roomId)) = "")
    => \A message \in MakeMoveMessages :
         /\ PieceAt(ws, message) = NoPiece
              => AlwaysRejected(ws, message, "No piece at source square")
         /\ (/\ PieceAt(ws, message) # NoPiece
             /\ PieceAt(ws, message).color # SideToMove(ws))
              => AlwaysRejected(ws, message, "Cannot move opponent's piece")
C10_Witness ==
  \E ws \in Conns :
    /\ sent = Error(ws, "Cannot move opponent's piece")
    /\ session[ws].roomId # 0
    /\ GameOf(ws).status = "active"

\* the session is bound to a room that has a game
InGame(ws) ==
  /\ session[ws].roomId # 0
  /\ getGameByRoomId(session[ws].roomId) # {}

\* C11: a make_move handled while the persisted status of the sender's game
\* is not active (waiting, checkmate or resigned) is answered with the
\* not-active error to the sender only, changes no record and starts no
\* write; and a game that is still waiting has no committed move.
C11_NotActive ==
  /\ [][\A ws \in Conns :
          (InGame(ws) /\ GameOf(ws).status # "active" /\ handleMakeMove(ws))
          => Rejected(ws, "Game is not active")]_vars
  /\ [](\A g \in 1..Len(games) :
          games[g].status = "waiting" => games[g].moveHistory = <<>>)
C11_Witness ==
  \E ws \in Conns : /\ sent = Error(ws, "Game is not active")
                    /\ InGame(ws)
                    /\ GameOf(ws).status = "waiting"

\* the move_made events of a step
MoveMadeEvents(events) == { e \in events : e.event.type = "move_made" }
\* the step is storage.updateGame of the make_move handler t
Commits(t) == At(t, "make_move", "updateGame") /\ MakeMove_updateGame(t)

\* C12: a committed move that leaves the position in checkmate persists
\* status checkmate and winner = the colour of the mover, and its move_made
\* carries status checkmate, that winner, checkmate and gameOver; in every
\* move_made draw and stalemate are false and gameOver is true exactly when
\* status is not active.
C12_CheckmateOutcome ==
  [][\A t \in Tasks :
       Commits(t) =>
         LET g == t.loc.gameId
         IN /\ IsCheckmate(LoadFen(games'[g].boardState))
                 => /\ games'[g].status = "checkmate"
                    /\ games'[g].winner = session[t.ws].color
                    /\ \A e \in MoveMadeEvents(sent') :
                         /\ e.event.gameState.status = "checkmate"
                         /\ e.event.gameState.winner = session[t.ws].color
                         /\ e.event.gameState.checkmate
                         /\ e.event.gameState.gameOver
            /\ \A e \in MoveMadeEvents(sent') :
                 /\ ~e.event.gameState.draw
                 /\ ~e.event.gameState.stalemate
                 /\ e.event.gameState.gameOver
                      <=> (e.event.gameState.status # "active")]_vars
C12_Witness ==
  /\ \E g \in 1..Len(games) : games[g].status = "checkmate"
  /\ \E e \in MoveMadeEvents(sent) : e.event.gameState.checkmate

\* the side to move has pieces and no legal move: a position chess.js reports
\* as a stalemate
NoLegalMove(fen) ==
  /\ ~IsCheckmate(LoadFen(fen))
  /\ LegalMoves(LoadFen(fen)) = {}

ResignCommits(t) == At(t, "resign", "updateGame") /\ Resign_updateGame(t)
\* the open sessions of the clients map that are bound to the room
OpenSessionsOf(roomId) == { c \in SessionsOf(roomId) : readyState[c] = "OPEN" }

\* C14: a resign handled while the game is active persists status resigned and winner = the colour opposite
\* to the resigner's, whoever is to move, leaves boardState, moveHistory and
\* currentTurn unchanged, and broadcasts game_ended with that winner and
\* resignedPlayer = the resigner's colour to every open session of the room.
C14_ResignOutcome ==
  [][\A t \in Tasks :
       (ResignCommits(t) /\ t.loc.status = "active") =>
         LET g == t.loc.gameId
             c == session[t.ws].color
         IN /\ games'[g].status = "resigned"
            /\ games'[g].winner = Opposite(c)
            /\ games'[g].boardState = games[g].boardState
            /\ games'[g].moveHistory = games[g].moveHistory
            /\ games'[g].currentTurn = games[g].currentTurn
            /\ sent' = { Send(d, [type |-> "game_ended",
                                  reason |-> "resignation",
                                  winner |-> Opposite(c),
                                  resignedPlayer |-> c]) :
                         d \in OpenSessionsOf(games[g].roomId) }]_vars

\* C15: a resign handled while the persisted status of the game is checkmate
\* or resigned is answered with the not-active error to the sender only,
\* starts no write and so produces no game_ended.
C15_SecondResignRejected ==
  [][\A ws \in Conns :
       (/\ InGame(ws)
        /\ GameOf(ws).status \in {"checkmate", "resigned"}
        /\ handleResign(ws))
       => Rejected(ws, "Game is not active")]_vars

\* the step sends exactly one event, an error, to ws
OneErrorTo(ws) ==
  /\ Cardinality(sent') = 1
  /\ \A e \in sent' : e.to = ws /\ e.event.type = "error"

\* C16: a message that cannot be parsed, or whose type names none of the six
\* handlers, causes exactly one error event to the connection it came from,
\* changes no room, game, chat or session and is not broadcast.
C16_UnhandledInputAnswered ==
  [][\A ws \in Conns :
       (InvalidMessage(ws) \/ UnknownType(ws))
       => /\ OneErrorTo(ws)
          /\ UNCHANGED <<rooms, games, chatMessages, session, clients>>]_vars

\* C17: in every state each persisted room has exactly one game record.
C17_RoomHasGame ==
  \A r \in 1..Len(rooms) : Cardinality(getGameByRoomId(r)) = 1

\* C18: a join_room that is answered with an error has left the room record
\* and the session of the sender as they were before it was handled: the
\* handler, once it has written player2Id and bound its session (it is past
\* storage.updateRoom), does not end with an error event.
C18_ErrorMutatesNothing ==
  [][\A t \in Tasks :
       (At(t, "join_room", "getGameByRoomId") /\ JoinRoom_getGameByRoomId(t))
       => \A e \in sent' : e.event.type # "error"]_vars

\* C19: a make_move, send_chat, resign or offer_draw handled on a connection
\* whose session is bound to no room is answered with the not-in-a-room
\* error to that connection only; no record changes, no write is started and
\* nothing is broadcast.
C19_NotInRoom ==
  [][\A ws \in Conns :
       (/\ session[ws].roomId = 0
        /\ \/ handleMakeMove(ws)
           \/ handleSendChat(ws)
           \/ handleResign(ws)
           \/ handleOfferDraw(ws))
       => Rejected(ws, "Not in a room")]_vars
C19_Witness ==
  \E ws \in Conns : /\ sent = Error(ws, "Not in a room")
                    /\ session[ws].roomId = 0
                    /\ Len(games) > 0

\* a step that handles a message of ws: the message arrives, or a handler of
\* one of its messages resumes
Handles(ws) ==
  \/ handleMakeMove(ws) \/ handleJoinRoom(ws) \/ handleCreateRoom(ws)
  \/ handleResign(ws) \/ handleSendChat(ws) \/ handleOfferDraw(ws)
  \/ InvalidMessage(ws) \/ UnknownType(ws)
  \/ \E t \in Tasks :
       /\ t.ws = ws
       /\ \/ CreateRoom_createGame(t) \/ CreateRoom_updateRoom(t)
          \/ JoinRoom_updateRoom(t) \/ JoinRoom_getGameByRoomId(t)
          \/ JoinRoom_updateGame(t) \/ JoinRoom_getChatMessages(t)
          \/ MakeMove_updateGame(t) \/ Resign_updateGame(t)
ErrorsSent(events) == { e \in events : e.event.type = "error" }

\* C20: a step that sends an error event sends it to the connection whose
\* message the step handles (the message arrives, or one of its handlers
\* resumes): no step of a message of a connection can send an error to any
\* other connection; and a step that sends an error is no connect or close
\* step and removes no session from the clients map.
C20_ErrorConfinement ==
  /\ [](\A ws \in Conns :
          ~ENABLED (/\ Handles(ws)
                    /\ \E e \in ErrorsSent(sent') : e.to # ws))
  /\ [][\A e \in ErrorsSent(sent') :
          /\ clients' = clients
          /\ \A ws \in Conns : ~Connection(ws) /\ ~Close(ws)]_vars
C20_Witness ==
  \E ws \in Conns : \E other \in Conns \ {ws} :
    /\ ErrorsSent(sent) = Error(ws, "Not your turn")
    /\ other \in OpenSessionsOf(session[ws].roomId)

\* the event types that are sent with broadcastToRoom
BroadcastTypes ==
  {"game_started", "move_made", "game_ended", "chat_message", "draw_offered"}
Broadcasts(events) == { e \in events : e.event.type \in BroadcastTypes }
\* the connections that are in the clients map with this roomId and are open
Scope(roomId) ==
  { c \in clients : session[c].roomId = roomId /\ readyState[c] = "OPEN" }
\* the step sends one event of this type, to exactly the scope of the room
\* without `exclude`, and no other broadcast event
Delivered(type, roomId, exclude) ==
  /\ \A e \in Broadcasts(sent') : e.event.type = type
  /\ \A e1, e2 \in Broadcasts(sent') : e1.event = e2.event
  /\ { e.to : e \in Broadcasts(sent') } = Scope(roomId) \ {exclude}
\* a step that calls broadcastToRoom
BroadcastStep ==
  \/ \E t \in Tasks : \/ JoinRoom_getChatMessages(t)
                      \/ MakeMove_updateGame(t)
                      \/ Resign_updateGame(t)
  \/ \E ws \in Conns : /\ session[ws].roomId # 0
                       /\ handleSendChat(ws) \/ handleOfferDraw(ws)

C23_OfferDrawNotifies ==
  [][\A ws \in Conns :
       (session[ws].roomId # 0 /\ handleOfferDraw(ws))
       => /\ UNCHANGED <<rooms, games, chatMessages, session, clients,
                         readyState, inflight>>
          /\ sent' = { Send(c, [type |-> "draw_offered",
                                offeredBy |-> session[ws].color]) :
                       c \in Scope(session[ws].roomId) \ {ws} }
          /\ \A e \in sent' : e.to # ws]_vars
C23_Witness ==
  \E e \in sent :
    /\ e.event.type = "draw_offered"
    /\ \E ws \in Scope(session[e.to].roomId) \ {e.to} :
         session[ws].color = e.event.offeredBy

\* C25: the step of create_room that binds a session binds it as white /
\* seat 1, the step of join_room that binds a session binds it as black /
\* seat 2, and once a session is bound to a room no step changes its colour
\* or its seat.
C25_SeatFixed ==
  [][/\ \A t \in Tasks :
          /\ (CreateRoom_createGame(t) /\ t.ws \in clients)
               => session'[t.ws].color = "white" /\ session'[t.ws].playerId = 1
          /\ (JoinRoom_updateRoom(t) /\ t.ws \in clients)
               => session'[t.ws].color = "black" /\ session'[t.ws].playerId = 2
     /\ \A ws \in Conns :
          session[ws].roomId # 0
          => /\ session'[ws].color = session[ws].color
             /\ session'[ws].playerId = session[ws].playerId]_vars

\* the session of ws is in an active game, it is its turn, and another
\* connection that was bound to the same room has closed
RemainingOnTurn(ws) ==
  /\ Accepts(ws)
  /\ InGame(ws)
  /\ GameOf(ws).status = "active"
  /\ GameOf(ws).currentTurn = session[ws].color
  /\ \E c \in Conns \ {ws} : /\ readyState[c] = "CLOSED"
                             /\ session[c].roomId = session[ws].roomId
MessageOf(m) ==
  [type |-> "make_move", from |-> m.from, to |-> m.to, promotion |-> m.promotion]

\* the step sends nothing and suspends one more handler of this make_move of
\* ws at storage.updateGame
AcceptedMove(ws, message) ==
  /\ sent' = {}
  /\ \E t \in BagToSet(inflight') :
       /\ At(t, "make_move", "updateGame")
       /\ t.ws = ws
       /\ t.loc.message = message
       /\ CopiesIn(t, inflight') = CopiesIn(t, inflight) + 1

\* C28: a close (or error) event on a connection removes that connection's
\* session from the clients map and nothing else: no room, game or chat
\* record and no other session changes, no handler in flight is dropped and
\* no event is sent.  After it, a legal make_move of the remaining player on
\* its turn in an active game is accepted without an error, and the
\* storage.updateGame of an accepted make_move persists the move.
C28_Disconnect ==
  /\ [](\A ws \in Conns :
          RemainingOnTurn(ws)
          => \A m \in LegalMoves(LoadFen(GameOf(ws).boardState)) :
               /\ ENABLED (/\ ValidateMove(ws, getGameByRoomId(session[ws].roomId), MessageOf(m))
                           /\ AcceptedMove(ws, MessageOf(m)))
               /\ ~ENABLED (/\ ValidateMove(ws, getGameByRoomId(session[ws].roomId), MessageOf(m))
                            /\ ~AcceptedMove(ws, MessageOf(m))))
  /\ [][/\ \A ws \in Conns :
             Close(ws) => /\ clients' = clients \ {ws}
                          /\ ws \in clients
                          /\ UNCHANGED <<rooms, games, chatMessages, session, inflight>>
                          /\ sent' = {}
        /\ \A t \in Tasks :
             (At(t, "make_move", "updateGame") /\ MakeMove_updateGame(t))
             => /\ games'[t.loc.gameId].boardState = t.loc.update.boardState
                /\ games'[t.loc.gameId].moveHistory = t.loc.update.moveHistory
                /\ games'[t.loc.gameId].currentTurn = t.loc.update.currentTurn]_vars
C28_Witness ==
  /\ \E e \in sent :
       /\ e.event.type = "move_made"
       /\ \E c \in Conns \ {e.to} : /\ readyState[c] = "CLOSED"
                                    /\ session[c].roomId = session[e.to].roomId
  /\ \A e \in sent : e.event.type = "move_made"

\* the chat rows of a room, in the order of their insertion
RowsOf(roomId) == SelectSeq(chatMessages, LAMBDA row : row.roomId = roomId)

CheckTexts ==
  <<"Not in a room", "Game is not active", "Not your turn",
    "No piece at source square", "Cannot move opponent's piece", "Invalid move">>
\* check k fails for this make_move of ws, whatever the other checks say;
\* `chess` is the position of the game of ws and `legal` its legal moves
Fails(ws, chess, legal, message, k) ==
  CASE k = 1 -> session[ws].roomId = 0
    [] k = 2 -> InGame(ws) /\ GameOf(ws).status # "active"
    [] k = 3 -> InGame(ws) /\ session[ws].color # GameOf(ws).currentTurn
    [] k = 4 -> InGame(ws) /\ Get(chess, message.from) = NoPiece
    [] k = 5 -> /\ InGame(ws)
                /\ Get(chess, message.from) # NoPiece
                /\ Get(chess, message.from).color
                     # (IF session[ws].color = "white" THEN "w" ELSE "b")
    [] OTHER -> InGame(ws) /\ MoveMade(legal, message) = {}
\* the first of the checks k..last that fails, 0 when none does
RECURSIVE FirstFailing(_, _, _, _, _, _)
FirstFailing(ws, chess, legal, message, k, last) ==
  IF k > last THEN 0
  ELSE IF Fails(ws, chess, legal, message, k) THEN k
  ELSE FirstFailing(ws, chess, legal, message, k + 1, last)
AnyMessage == CHOOSE message \in MakeMoveMessages : TRUE

\* C30: the answer to a rejected make_move is the error of the first check
\* that fails in the order not-in-room, not-active, out-of-turn, no-piece,
\* wrong-owner, illegal-move.  When one of the first three fails, every
\* make_move of the connection is rejected with the error of the first of
\* them that fails; when none of them fails, the handler goes on to the
\* checks of the move, the error it finds for a make_move that fails one of
\* the last three is that of the first of those that fails, and a make_move
\* for which it finds an error cannot end in any other way than rejected
\* with that error.
C30_RejectionPrecedence ==
  \A ws \in Conns :
    (Accepts(ws) /\ (session[ws].roomId = 0 \/ InGame(ws)))
    => LET ids   == getGameByRoomId(session[ws].roomId)
           early == FirstFailing(ws, NewChess, {}, AnyMessage, 1, 3)
       IN IF early # 0
          THEN /\ ENABLED (handleMakeMove(ws) /\ Rejected(ws, CheckTexts[early]))
               /\ ~ENABLED (handleMakeMove(ws) /\ ~Rejected(ws, CheckTexts[early]))
          ELSE /\ GameError(ws, ids) = ""
               /\ \A chess \in {LoadFen(GameOf(ws).boardState)} :
                  \A legal \in {LegalMoves(chess)} :
                    /\ \A message \in MakeMoveMessages :
                         LET late == FirstFailing(ws, chess, legal, message, 4, 6)
                         IN late # 0
                            => MoveError(GameOf(ws), chess, legal, message)
                                 = CheckTexts[late]
                    /\ \A text \in { MoveError(GameOf(ws), chess, legal, message) :
                                       message \in MakeMoveMessages } \ {""} :
                         LET message == CHOOSE m \in MakeMoveMessages :
                                          MoveError(GameOf(ws), chess, legal, m) = text
                         IN ~ENABLED (/\ ValidateMoveIn(ws, ids, GameOf(ws), chess,
                                                        legal, message)
                                      /\ ~Rejected(ws, text))
C30_Witness ==
  \E ws \in Conns :
    /\ sent = Error(ws, "Game is not active")
    /\ InGame(ws)
    /\ GameOf(ws).status = "checkmate"
    /\ session[ws].color # GameOf(ws).currentTurn

\* C24: the last step of a create_room sends room_created with colour white
\* and status waiting to the creator; the last step of a join_room sends
\* room_joined with colour black to the joiner and game_started with status
\* active and currentTurn white to every open session bound to the room, the
\* creator's and the joiner's among them when their connections are open.
C24_Handshake ==
  [][\A t \in Tasks :
       /\ CreateRoom_updateRoom(t)
            => \E e \in sent' : /\ e.to = t.ws
                                /\ e.event.type = "room_created"
                                /\ e.event.color = "white"
                                /\ e.event.gameState.status = "waiting"
       /\ JoinRoom_getChatMessages(t)
            => /\ \E e \in sent' : /\ e.to = t.ws
                                   /\ e.event.type = "room_joined"
                                   /\ e.event.color = "black"
               /\ \A c \in Conns :
                    (/\ readyState[c] = "OPEN"
                     /\ \/ c = t.ws
                        \/ session[c].roomId = t.loc.roomId /\ session[c].playerId = 1)
                    => \E e \in sent' : /\ e.to = c
                                        /\ e.event.type = "game_started"
                                        /\ e.event.gameState.status = "active"
                                        /\ e.event.gameState.currentTurn = "white"]_vars

\* C26: one room per connection: once the session of a connection is bound
\* to a room, no create_room or join_room of that connection binds it to a
\* different room; session.roomId never changes from one room to another
C26_OneRoomPerConnection ==
  [][\A ws \in Conns :
       session[ws].roomId # 0 => session'[ws].roomId = session[ws].roomId]_vars

\* the characters of a room code
CodeAlphabet ==
  { UpperCase[k] : k \in 1..26 }
    \cup {"0", "1", "2", "3", "4", "5", "6", "7", "8", "9"}
\* C27: every code create_room persists is exactly 6 characters of [A-Z0-9],
\* no two persisted rooms share a code, and a create_room whose generated
\* code is already in use does not fail
C27_RoomCodes ==
  /\ [](\A id \in 1..Len(rooms) :
          /\ Len(rooms[id].code) = 6
          /\ \A i \in 1..Len(rooms[id].code) : rooms[id].code[i] \in CodeAlphabet)
  /\ [](\A id, other \in 1..Len(rooms) :
          rooms[id].code = rooms[other].code => id = other)
  /\ [][\A ws \in Conns :
          handleCreateRoomAny(ws) =>
            \A e \in sent' : e.event.type # "error"]_vars


\* C22: broadcast is fire-and-forget after the commit: a step that persists
\* the update of a move leaves it persisted, and when the send to one
\* recipient throws, every other open session of the room still receives
\* move_made and the sender is not told that the move failed
C22_FireAndForget ==
  [][\A t \in Tasks :
       (At(t, "make_move", "updateGame")
          /\ (MakeMove_updateGame(t) \/ MakeMove_sendThrows(t)))
       => /\ games' = updateGame(t.loc.gameId, t.loc.update)
          /\ Cardinality(Scope(session[t.ws].roomId)
               \ { e.to : e \in { d \in sent' : d.event.type = "move_made" } }) <= 1
          /\ \A e \in Error(t.ws, "Failed to make move") : e \notin sent']_vars

\* C31: the game of a room is started exactly once. Status active is written
\* only by a join_room and by a move on an active game, so a join_room that
\* writes status active onto a game that is already active or checkmated is a
\* second start; and a join_room that broadcasts game_started in the step
\* after a game_started was sent broadcasts it a second time
C31_StartOnce ==
  [][\A t \in Tasks :
       /\ JoinRoom_updateGame(t) =>
            games[t.loc.gameId].status \notin {"active", "checkmate"}
       /\ JoinRoom_getChatMessages(t) =>
            \A e \in sent : e.event.type # "game_started"]_vars

C33_StorageFailure ==
  [][/\ \A ws \in Conns :
          MakeMove_getGameByRoomIdThrows(ws) =>
            /\ sent' = Error(ws, "Failed to make move")
            /\ games' = games
            /\ inflight' = inflight
     /\ \A t \in Tasks :
          MakeMove_updateGameThrows(t) =>
            /\ sent' = Error(t.ws, "Failed to make move")
            /\ games' = games
            /\ inflight' = inflight (-) SetToBag({t})
     /\ \A e \in sent' :
          (e.event.type = "error" /\ e.event.message = "Failed to make move") =>
            \/ MakeMove_getGameByRoomIdThrows(e.to)
            \/ \E t \in Tasks : t.ws = e.to /\ MakeMove_updateGameThrows(t)]_vars
\* a failed move has just been reported while a validated move of the other
\* handler of the game is still waiting for its storage.updateGame
C33_Witness ==
  /\ \E ws \in Conns : sent = Error(ws, "Failed to make move")
  /\ \E g \in 1..Len(games) : games[g].status = "active" /\ games[g].moveHistory = <<>>
  /\ \E t \in Tasks : At(t, "make_move", "updateGame")

\* the legal moves from -> to of a message that need no promotion piece, and
\* those that promote to the piece the message names
PlainMoves(legal, msg) ==
  { m \in legal : m.from = msg.from /\ m.to = msg.to /\ m.promotion = "-" }
PromotingMoves(legal, msg) ==
  { m \in legal : /\ m.from = msg.from /\ m.to = msg.to
                  /\ m.promotion # "-" /\ m.promotion = msg.promotion }
\* the make_move handlers this step has put in flight
Accepted == { t \in BagToSet(inflight') :
                /\ t.handler = "make_move"
                /\ CopiesIn(t, inflight') > CopiesIn(t, inflight) }

\* C34: a make_move is accepted with the move of the attempt without a
\* promotion piece when the rules allow that move, and otherwise only with
\* the move that promotes to the piece the message names; a message without
\* a promotion piece for a move that must promote is answered 'Invalid move'
\* with no change of state; accepting a message puts one handler in flight
\* and changes no game, and the handler commits once and is gone
C34_Promotion ==
  /\ [][/\ \A t \in Accepted :
             \A chess \in {LoadFen(games[t.loc.gameId].boardState)} :
             \A legal \in {LegalMoves(chess)} :
               /\ \E m \in IF PlainMoves(legal, t.loc.message) # {}
                           THEN PlainMoves(legal, t.loc.message)
                           ELSE PromotingMoves(legal, t.loc.message) :
                    /\ t.loc.move = MoveResult(chess, m)
                    /\ t.loc.update = MoveUpdate(games[t.loc.gameId], chess, m)
               /\ inflight' = inflight (+) SetToBag({t})
               /\ games' = games
        /\ \A t \in Tasks :
             MakeMove_updateGame(t) => inflight' = inflight (-) SetToBag({t})]_vars
  /\ [](\A ws \in Conns :
          (Accepts(ws) /\ InGame(ws)
             /\ GameError(ws, getGameByRoomId(session[ws].roomId)) = "")
          => \A chess \in {LoadFen(GameOf(ws).boardState)} :
             \A legal \in {LegalMoves(chess)} :
             \A m \in { l \in legal : l.promotion # "-" } :
               /\ ENABLED (/\ ValidateMoveIn(ws, getGameByRoomId(session[ws].roomId),
                                             GameOf(ws), chess, legal,
                                             [type |-> "make_move", from |-> m.from,
                                              to |-> m.to, promotion |-> "-"])
                           /\ Rejected(ws, "Invalid move"))
               /\ ~ENABLED (/\ ValidateMoveIn(ws, getGameByRoomId(session[ws].roomId),
                                              GameOf(ws), chess, legal,
                                              [type |-> "make_move", from |-> m.from,
                                               to |-> m.to, promotion |-> "-"])
                            /\ ~Rejected(ws, "Invalid move")))
\* a message without a promotion piece has just been answered 'Invalid move'
\* while the handler of the same move sent with the piece is in flight
C34_Witness ==
  \E t \in Tasks :
    /\ At(t, "make_move", "updateGame")
    /\ t.loc.message.promotion = "q"
    /\ t.loc.move.san.promotion = "q"
    /\ sent = Error(t.ws, "Invalid move")
    /\ \E m \in LegalMoves(LoadFen(games[t.loc.gameId].boardState)) :
         m.from = t.loc.message.from /\ m.to = t.loc.message.to

\* C35: a resignation is not lost to a move in flight: when a make_move that
\* has read the game as active writes after a resign has committed, its
\* storage.updateGame leaves the status resigned and the winner as they are
C35_ResignNotLost ==
  [][\A t \in Tasks :
       (MakeMove_updateGame(t) /\ games[t.loc.gameId].status = "resigned")
       => /\ games'[t.loc.gameId].status = "resigned"
          /\ games'[t.loc.gameId].winner = games[t.loc.gameId].winner]_vars

\* what a client keeps of a gameState, and the same fields of a game record
Held(gameState) == <<gameState.fen, gameState.currentTurn, gameState.moveHistory>>
Persisted(game) == <<game.boardState, game.currentTurn, game.moveHistory>>

C37_ChatOnce ==
  [][\A t \in Tasks :
       JoinRoom_getChatMessages(t) =>
         \A e \in sent :
           (e.to = t.ws /\ e.event.type = "chat_message"
              /\ e.event.message.playerId = 1)
           => chatMessages[e.event.message.id].roomId # t.loc.roomId]_vars

\* the colour whose piece stands on the square the last move of the game
\* went to
LastMover(game) ==
  IF game.boardState.placement[game.moveHistory[Len(game.moveHistory)].to].color = "w"
  THEN "white" ELSE "black"
\* C38: in every state of every game the winner is set exactly when the
\* status is checkmate or resigned (it is null while the status is waiting
\* or active), and the winner of a checkmate is the colour that made the
\* last move of the moveHistory
C38_WinnerStatus ==
  \A g \in 1..Len(games) :
    /\ games[g].winner # "null" <=> games[g].status \in {"checkmate", "resigned"}
    /\ games[g].status = "checkmate" =>
         /\ games[g].moveHistory # <<>>
         /\ games[g].winner = LastMover(games[g])

\* the events that report the success of a message
SuccessTypes == {"room_created", "room_joined", "game_started", "move_made",
                 "chat_message", "game_ended", "draw_offered"}
\* the step sends an error event to ws and nothing else, or success events
\* and no error event
Answered(ws) ==
  \/ /\ \E e \in sent' : e.to = ws
     /\ \A e \in sent' : e.to = ws /\ e.event.type = "error"
  \/ /\ sent' # {}
     /\ \A e \in sent' : e.event.type \in SuccessTypes
\* the step is the last one of the handler of a message of ws: the message
\* arrives and no handler is left in flight for it, or its handler in flight
\* resumes and ends
Completes(ws) ==
  \/ /\ \/ handleCreateRoom(ws) \/ handleJoinRoom(ws) \/ handleMakeMove(ws)
        \/ handleSendChat(ws) \/ handleResign(ws) \/ handleOfferDraw(ws)
     /\ inflight' = inflight
  \/ \E t \in Tasks :
       /\ t.ws = ws
       /\ inflight' = inflight (-) SetToBag({t})
       /\ \/ CreateRoom_updateRoom(t) \/ JoinRoom_getGameByRoomId(t)
          \/ JoinRoom_getChatMessages(t) \/ MakeMove_updateGame(t)
          \/ Resign_updateGame(t)

\* C39: every handled message gets an answer: the step that ends the
\* handler of a create_room, join_room, make_move, send_chat, resign or
\* offer_draw of a connection that is open sends either an error event to
\* the sender or the success events of the message, never both and never
\* neither
C39_Answered ==
  [][\A ws \in Conns :
       (readyState[ws] = "OPEN" /\ ws \in clients /\ Completes(ws))
       => Answered(ws)]_vars

\* C40: the reconnects of useWebSocket are bounded. At most 3 reconnects are
\* scheduled without a successful open in between, each with a strictly
\* larger delay than the one before; the attempt counter returns to 0 only
\* in ws.onopen; a clean close (code 1000) sets no timer; and no two
\* WebSockets of the hook are connecting at the same time
C40_ReconnectBounded ==
  /\ [](/\ Len(hook.scheduled) <= 3
        /\ \A i \in 1..Len(hook.scheduled) - 1 :
             hook.scheduled[i] < hook.scheduled[i + 1]
        /\ Cardinality({ ws \in DOMAIN hook.webSockets :
                           hook.webSockets[ws] = "CONNECTING" }) <= 1)
  /\ [][/\ (hook.reconnectAttemptsRef # 0 /\ hook'.reconnectAttemptsRef = 0)
             => \E ws \in DOMAIN hook.webSockets : onopen(ws)
        /\ \A ws \in DOMAIN hook.webSockets :
             onclose(ws, 1000) => hook'.timeouts = hook.timeouts]_hookVars
\* three reconnects in a row have failed and the hook has given up: every
\* WebSocket is closed and no timer is pending
C40_Witness ==
  /\ Len(hook.scheduled) = 3
  /\ Len(hook.webSockets) >= 4
  /\ \A ws \in DOMAIN hook.webSockets : hook.webSockets[ws] = "CLOSED"
  /\ \A id \in DOMAIN hook.timeouts : ~hook.timeouts[id].pending

====
